---- MODULE Spec2Model ----
(***************************************************************************)
(* A model of the JWT decoder of src/main.rs: parser splits the token on   *)
(* ".", decodes the header and payload segments (base64url, UTF-8, JSON)   *)
(* and the signature segment (base64url only), rejects a trailing segment  *)
(* and assembles a JWToken.  A token is a sequence of one-character        *)
(* strings, a decoded segment a sequence of bytes (0..255).                *)
(***************************************************************************)
EXTENDS Integers, Sequences, FiniteSets, TLC

VARIABLES jwt, splits, header, payload, signature, result, pc

vars == <<jwt, splits, header, payload, signature, result, pc>>

(***************************************************************************)
(* Bounds of the model.                                                    *)
(***************************************************************************)
\* every string over TokenChars up to this length is an input
MaxTokenLen == 5
\* inputs joined from whole segments have up to this many segments
MaxSegs == 4

(***************************************************************************)
(* base64::decode_config(part, base64::URL_SAFE)                           *)
(***************************************************************************)
\* the URL-safe alphabet; a symbol's value is its index minus one
B64Alphabet ==
  << "A", "B", "C", "D", "E", "F", "G", "H", "I", "J", "K", "L", "M", "N", "O", "P",
     "Q", "R", "S", "T", "U", "V", "W", "X", "Y", "Z", "a", "b", "c", "d", "e", "f",
     "g", "h", "i", "j", "k", "l", "m", "n", "o", "p", "q", "r", "s", "t", "u", "v",
     "w", "x", "y", "z", "0", "1", "2", "3", "4", "5", "6", "7", "8", "9", "-", "_" >>

PadChar == "="

B64Symbols == {B64Alphabet[i] : i \in 1..Len(B64Alphabet)}

SymbolValue(c) == (CHOOSE i \in 1..Len(B64Alphabet) : B64Alphabet[i] = c) - 1

\* the '=' characters that end the input
RECURSIVE NumPad(_)
NumPad(part) ==
  IF part # <<>> /\ part[Len(part)] = PadChar
    THEN 1 + NumPad(SubSeq(part, 1, Len(part) - 1))
    ELSE 0

\* the bytes that the symbols k..m of part pack into, four 6-bit values to
\* three bytes
RECURSIVE PackBytes(_, _, _)
PackBytes(part, k, m) ==
  LET v(j) == SymbolValue(part[k + j - 1]) IN
    IF m - k < 1 THEN <<>>
    ELSE IF m - k = 1 THEN << v(1) * 4 + v(2) \div 16 >>
    ELSE IF m - k = 2
      THEN << v(1) * 4 + v(2) \div 16, (v(2) % 16) * 16 + v(3) \div 4 >>
    ELSE << v(1) * 4 + v(2) \div 16, (v(2) % 16) * 16 + v(3) \div 4,
            (v(3) % 4) * 64 + v(4) >> \o PackBytes(part, k + 4, m)

\* DecodeError::InvalidLength: one symbol cannot hold a byte
InvalidLength(part) == Len(part) % 4 = 1

\* DecodeError::InvalidByte: a character outside the alphabet, a pad in the
\* first two places of a group of four, or a pad followed by a symbol
InvalidByte(part) ==
  LET m == Len(part) - NumPad(part) IN
    \/ \E i \in 1..m : part[i] \notin B64Symbols
    \/ \E i \in (m + 1)..Len(part) : (i - 1) % 4 < 2

\* DecodeError::InvalidLastSymbol: the last symbol carries bits that belong
\* to no byte (decode_allow_trailing_bits is off)
InvalidLastSymbol(part) ==
  LET m == Len(part) - NumPad(part) IN
    /\ m > 0
    /\ \/ m % 4 = 2 /\ SymbolValue(part[m]) % 16 # 0
       \/ m % 4 = 3 /\ SymbolValue(part[m]) % 4 # 0

\* padding is optional: the decoder takes the input with or without it
b64_decode(part) ==
  IF InvalidLength(part) \/ InvalidByte(part) \/ InvalidLastSymbol(part)
    THEN [ok |-> FALSE, bytes |-> <<>>]
    ELSE [ok |-> TRUE, bytes |-> PackBytes(part, 1, Len(part) - NumPad(part))]

(***************************************************************************)
(* std::str::from_utf8                                                     *)
(***************************************************************************)
IsCont(b, i) == i <= Len(b) /\ b[i] >= 128 /\ b[i] <= 191

\* well-formed UTF-8 from byte i on: no overlong form, no surrogate, nothing
\* above U+10FFFF
RECURSIVE Utf8From(_, _)
Utf8From(b, i) ==
  IF i > Len(b) THEN TRUE
  ELSE IF b[i] < 128 THEN Utf8From(b, i + 1)
  ELSE IF b[i] >= 194 /\ b[i] <= 223
    THEN IsCont(b, i + 1) /\ Utf8From(b, i + 2)
  ELSE IF b[i] >= 224 /\ b[i] <= 239
    THEN /\ IsCont(b, i + 1) /\ IsCont(b, i + 2)
         /\ (b[i] = 224 => b[i + 1] >= 160)
         /\ (b[i] = 237 => b[i + 1] <= 159)
         /\ Utf8From(b, i + 3)
  ELSE IF b[i] >= 240 /\ b[i] <= 244
    THEN /\ IsCont(b, i + 1) /\ IsCont(b, i + 2) /\ IsCont(b, i + 3)
         /\ (b[i] = 240 => b[i + 1] >= 144)
         /\ (b[i] = 244 => b[i + 1] <= 143)
         /\ Utf8From(b, i + 4)
  ELSE FALSE

from_utf8(b) == Utf8From(b, 1)

(***************************************************************************)
(* serde_json::from_str::<serde_json::Value>                               *)
(*                                                                         *)
(* A Value is a record of one shape for every kind, so that any two can be *)
(* compared: kind, the integer n, the string s (its bytes), the array a    *)
(* and the object o (its key-value pairs, one per key).  The grammar is    *)
(* JSON's; a number with a fraction or an exponent is kept as its lexeme,  *)
(* and a \u escape is outside the fragment modelled (no input has one).    *)
(***************************************************************************)
JNull == [kind |-> "null", n |-> 0, s |-> <<>>, a |-> <<>>, o |-> {}]
JBool(x) == [kind |-> "bool", n |-> IF x THEN 1 ELSE 0, s |-> <<>>, a |-> <<>>, o |-> {}]
JNum(x) == [kind |-> "number", n |-> x, s |-> <<>>, a |-> <<>>, o |-> {}]
JFloat(x) == [kind |-> "float", n |-> 0, s |-> x, a |-> <<>>, o |-> {}]
JStr(x) == [kind |-> "string", n |-> 0, s |-> x, a |-> <<>>, o |-> {}]
JArr(x) == [kind |-> "array", n |-> 0, s |-> <<>>, a |-> x, o |-> {}]
JObj(x) == [kind |-> "object", n |-> 0, s |-> <<>>, a |-> <<>>, o |-> x]

\* the element of a singleton: The({e : x \in {v}}) is e with x bound to the
\* value of v, which is then evaluated once however often e uses x
The(S) == CHOOSE x \in S : TRUE

\* a parse step: whether it succeeded, the value read, the next position
Read(v, i) == [ok |-> TRUE, v |-> v, i |-> i]
NoRead == [ok |-> FALSE, v |-> JNull, i |-> 0]

IsWs(c) == c \in {32, 9, 10, 13}
IsDigit(c) == c >= 48 /\ c <= 57
At(b, i, c) == i <= Len(b) /\ b[i] = c

RECURSIVE SkipWs(_, _)
SkipWs(b, i) == IF i <= Len(b) /\ IsWs(b[i]) THEN SkipWs(b, i + 1) ELSE i

\* the end of the run of digits that starts at i
RECURSIVE DigitsEnd(_, _)
DigitsEnd(b, i) == IF i <= Len(b) /\ IsDigit(b[i]) THEN DigitsEnd(b, i + 1) ELSE i

RECURSIVE DigitsValue(_, _, _)
DigitsValue(b, i, j) ==
  IF j <= i THEN 0 ELSE DigitsValue(b, i, j - 1) * 10 + (b[j - 1] - 48)

\* the end of the fraction and exponent that start at i, or 0 if malformed
TailEnd(b, i) ==
  LET f == IF At(b, i, 46) THEN DigitsEnd(b, i + 1) ELSE i
      e == IF At(b, f, 101) \/ At(b, f, 69)
             THEN IF At(b, f + 1, 43) \/ At(b, f + 1, 45) THEN f + 2 ELSE f + 1
             ELSE f
      x == IF e > f THEN DigitsEnd(b, e) ELSE f
  IN IF At(b, i, 46) /\ f = i + 1 THEN 0
     ELSE IF e > f /\ x = e THEN 0
     ELSE x

\* a number: "-"? ("0" | [1-9][0-9]*) fraction? exponent?
ParseNumber(b, i) ==
  LET neg == At(b, i, 45)
      d == IF neg THEN i + 1 ELSE i
      j == IF At(b, d, 48) THEN d + 1 ELSE DigitsEnd(b, d)
      t == TailEnd(b, j)
  IN IF j = d \/ (At(b, d, 48) /\ j <= Len(b) /\ IsDigit(b[j])) \/ t = 0
       THEN NoRead
     ELSE IF t > j \/ (neg /\ At(b, d, 48))
       THEN Read(JFloat(SubSeq(b, i, t - 1)), t)
     ELSE Read(JNum(IF neg THEN 0 - DigitsValue(b, d, j) ELSE DigitsValue(b, d, j)), j)

\* the literal lit at i
ParseLiteral(b, i, lit, v) ==
  IF i + Len(lit) - 1 <= Len(b) /\ SubSeq(b, i, i + Len(lit) - 1) = lit
    THEN Read(v, i + Len(lit))
    ELSE NoRead

\* the byte an escape \c stands for, or 0
Unescape(c) ==
  CASE c = 34 -> 34 [] c = 92 -> 92 [] c = 47 -> 47 [] c = 98 -> 8
    [] c = 102 -> 12 [] c = 110 -> 10 [] c = 114 -> 13 [] c = 116 -> 9
    [] OTHER -> 0

\* the rest of a string whose opening quote is before i
RECURSIVE ParseString(_, _, _)
ParseString(b, i, acc) ==
  IF i > Len(b) \/ b[i] < 32 THEN NoRead
  ELSE IF b[i] = 34 THEN Read(JStr(acc), i + 1)
  ELSE IF b[i] = 92
    THEN IF i + 1 <= Len(b) /\ Unescape(b[i + 1]) # 0
           THEN ParseString(b, i + 2, Append(acc, Unescape(b[i + 1])))
           ELSE NoRead
  ELSE ParseString(b, i + 1, Append(acc, b[i]))

RECURSIVE ParseValue(_, _)
RECURSIVE ParseElements(_, _, _)
RECURSIVE ParseMember(_, _)
RECURSIVE ParseMembers(_, _, _)

\* the elements of an array from i on, acc being those read so far
ParseElements(b, i, acc) ==
  The({ LET j == SkipWs(b, r.i)
        IN IF ~r.ok THEN NoRead
           ELSE IF At(b, j, 44) THEN ParseElements(b, j + 1, Append(acc, r.v))
           ELSE IF At(b, j, 93) THEN Read(JArr(Append(acc, r.v)), j + 1)
           ELSE NoRead : r \in {ParseValue(b, SkipWs(b, i))} })

\* the member "key" : value at i; v is the pair of the key and the value
ParseMember(b, i) ==
  The({ LET c == SkipWs(b, key.i)
            r == IF key.ok /\ At(b, c, 58) THEN ParseValue(b, SkipWs(b, c + 1)) ELSE NoRead
        IN The({ IF x.ok THEN [ok |-> TRUE, v |-> <<key.v.s, x.v>>, i |-> x.i]
                         ELSE [ok |-> FALSE, v |-> <<>>, i |-> 0] : x \in {r} }) :
        key \in {IF At(b, i, 34) THEN ParseString(b, i + 1, <<>>) ELSE NoRead} })

\* the members of an object from i on; a repeated key keeps its last value
ParseMembers(b, i, acc) ==
  The({ LET j == SkipWs(b, m.i)
            now == {p \in acc : p[1] # m.v[1]} \cup {m.v}
        IN IF ~m.ok THEN NoRead
           ELSE IF At(b, j, 44) THEN ParseMembers(b, j + 1, now)
           ELSE IF At(b, j, 125) THEN Read(JObj(now), j + 1)
           ELSE NoRead : m \in {ParseMember(b, SkipWs(b, i))} })

\* the value that starts at i
ParseValue(b, i) ==
  IF i > Len(b) THEN NoRead
  ELSE IF b[i] = 110 THEN ParseLiteral(b, i, <<110, 117, 108, 108>>, JNull)
  ELSE IF b[i] = 116 THEN ParseLiteral(b, i, <<116, 114, 117, 101>>, JBool(TRUE))
  ELSE IF b[i] = 102 THEN ParseLiteral(b, i, <<102, 97, 108, 115, 101>>, JBool(FALSE))
  ELSE IF b[i] = 34 THEN ParseString(b, i + 1, <<>>)
  ELSE IF b[i] = 91
    THEN IF At(b, SkipWs(b, i + 1), 93)
           THEN Read(JArr(<<>>), SkipWs(b, i + 1) + 1)
           ELSE ParseElements(b, i + 1, <<>>)
  ELSE IF b[i] = 123
    THEN IF At(b, SkipWs(b, i + 1), 125)
           THEN Read(JObj({}), SkipWs(b, i + 1) + 1)
           ELSE ParseMembers(b, i + 1, {})
  ELSE IF b[i] = 45 \/ IsDigit(b[i]) THEN ParseNumber(b, i)
  ELSE NoRead

\* one value, white space around it allowed, nothing after it
from_str(b) ==
  LET r == ParseValue(b, SkipWs(b, 1)) IN
    IF r.ok /\ SkipWs(b, r.i) = Len(b) + 1
      THEN [ok |-> TRUE, v |-> r.v]
      ELSE [ok |-> FALSE, v |-> JNull]

(***************************************************************************)
(* The decoder                                                             *)
(***************************************************************************)
\* Option<&str>, the next item of the Split iterator
None == [some |-> FALSE, part |-> <<>>]
Some(part) == [some |-> TRUE, part |-> part]

\* Result<_, JWTError>
Ok(val) == [ok |-> TRUE, val |-> val]
Err(e) == [ok |-> FALSE, err |-> e]

\* the index of the first "." of s, or 0
FirstDot(s) ==
  IF \E i \in 1..Len(s) : s[i] = "."
    THEN CHOOSE i \in 1..Len(s) : s[i] = "." /\ \A k \in 1..(i - 1) : s[k] # "."
    ELSE 0

\* jwt.as_ref().split("."): the text not yet split, and whether the last
\* segment has been given out
Split(s) == [rest |-> s, finished |-> FALSE]

\* mutant of SplitNext: empty text gives no segment
SplitNextSkipEmpty(it) ==
  IF it.finished \/ it.rest = <<>> THEN [item |-> None, it |-> it]
  ELSE IF FirstDot(it.rest) = 0
    THEN [item |-> Some(it.rest), it |-> [rest |-> <<>>, finished |-> TRUE]]
  ELSE [item |-> Some(SubSeq(it.rest, 1, FirstDot(it.rest) - 1)),
        it |-> [rest |-> SubSeq(it.rest, FirstDot(it.rest) + 1, Len(it.rest)),
                finished |-> FALSE]]

\* splits.next(): the item and the iterator after it.  The text up to the
\* next "." is a segment, empty or not; the text after the last "." is the
\* last one
SplitNext(it) ==
  IF it.finished THEN [item |-> None, it |-> it]
  ELSE IF FirstDot(it.rest) = 0
    THEN [item |-> Some(it.rest), it |-> [rest |-> <<>>, finished |-> TRUE]]
  ELSE [item |-> Some(SubSeq(it.rest, 1, FirstDot(it.rest) - 1)),
        it |-> [rest |-> SubSeq(it.rest, FirstDot(it.rest) + 1, Len(it.rest)),
                finished |-> FALSE]]

\* mutant of process_part: a base64 failure wrapped as the JSON error
process_part_miswrapped(part) ==
  LET decoded == b64_decode(part) IN
    IF ~decoded.ok THEN Err("SerdeJsonError")
    ELSE IF ~from_utf8(decoded.bytes) THEN Err("UTF8Error")
    ELSE IF ~from_str(decoded.bytes).ok THEN Err("SerdeJsonError")
    ELSE Ok(from_str(decoded.bytes).v)

\* mutant of process_part: the bytes are taken for UTF-8 unchecked
process_part_unchecked_utf8(part) ==
  LET decoded == b64_decode(part) IN
    IF ~decoded.ok THEN Err("DecodeError")
    ELSE IF ~from_str(decoded.bytes).ok THEN Err("SerdeJsonError")
    ELSE Ok(from_str(decoded.bytes).v)

\* each ? returns the error of the first conversion that fails
process_part(part) ==
  The({ IF ~decoded.ok THEN Err("DecodeError")
        ELSE IF ~from_utf8(decoded.bytes) THEN Err("UTF8Error")
        ELSE The({ IF ~json.ok THEN Err("SerdeJsonError") ELSE Ok(json.v) :
                   json \in {from_str(decoded.bytes)} }) :
        decoded \in {b64_decode(part)} })

parser_header(o) ==
  IF ~o.some THEN Err("MissingPartError") ELSE process_part(o.part)

\* mutant of parser_payload: a payload that fails to decode becomes null
parser_payload_default(o) ==
  IF ~o.some THEN Err("MissingPartError")
  ELSE IF ~process_part(o.part).ok THEN Ok(JNull)
  ELSE process_part(o.part)

parser_payload(o) ==
  IF ~o.some THEN Err("MissingPartError") ELSE process_part(o.part)

\* mutant of parser_signauture: a missing signature is an empty one
parser_signauture_default(o) ==
  IF ~o.some THEN Ok(<<>>)
  ELSE IF ~b64_decode(o.part).ok THEN Err("DecodeError")
  ELSE Ok(b64_decode(o.part).bytes)

\* mutant of parser_signauture: the segment is checked like the other two
parser_signauture_as_json(o) ==
  IF ~o.some THEN Err("MissingPartError")
  ELSE IF ~process_part(o.part).ok THEN process_part(o.part)
  ELSE Ok(b64_decode(o.part).bytes)

parser_signauture(o) ==
  IF ~o.some THEN Err("MissingPartError")
  ELSE IF ~b64_decode(o.part).ok THEN Err("DecodeError")
  ELSE Ok(b64_decode(o.part).bytes)

\* mutant of trailing_check: a fourth segment is let through
trailing_unchecked(o) == Ok(<<>>)

\* if splits.next().is_some() { return Err(JWTError::UnknownPartError); }
trailing_check(o) ==
  IF o.some THEN Err("UnknownPartError") ELSE Ok(<<>>)

\* mutant of JWToken: header and payload change places
JWTokenSwapped(h, p, s) == [header |-> p, payload |-> h, signature |-> s]

\* struct JWToken
JWToken(h, p, s) == [header |-> h, payload |-> p, signature |-> s]

\* a local of parser before and after its let
Unbound == [bound |-> FALSE]
Bound(v) == [bound |-> TRUE, v |-> v]

\* what parser has returned: nothing yet, Ok(JWToken) or Err(JWTError)
Running == [returned |-> FALSE]
ReturnOk(t) == [returned |-> TRUE, token |-> t]
ReturnErr(e) == [returned |-> TRUE, err |-> e]

(***************************************************************************)
(* The inputs                                                              *)
(***************************************************************************)
\* the token of parsing_success_test
TestHeaderPart ==
  << "e", "y", "J", "h", "b", "G", "c", "i", "O", "i", "J", "I", "U", "z", "I", "1",
     "N", "i", "I", "s", "I", "n", "R", "5", "c", "C", "I", "6", "I", "k", "p", "X",
     "V", "C", "J", "9" >>

TestPayloadPart ==
  << "e", "y", "J", "z", "d", "W", "I", "i", "O", "i", "I", "x", "M", "j", "M", "0",
     "N", "T", "Y", "3", "O", "D", "k", "w", "I", "i", "w", "i", "b", "m", "F", "t",
     "Z", "S", "I", "6", "I", "k", "p", "v", "a", "G", "4", "g", "R", "G", "9", "l",
     "I", "i", "w", "i", "a", "W", "F", "0", "I", "j", "o", "x", "N", "T", "E", "2",
     "M", "j", "M", "5", "M", "D", "I", "y", "f", "Q" >>

TestSignaturePart ==
  << "S", "f", "l", "K", "x", "w", "R", "J", "S", "M", "e", "K", "K", "F", "2", "Q",
     "T", "4", "f", "w", "p", "M", "e", "J", "f", "3", "6", "P", "O", "k", "6", "y",
     "J", "V", "_", "a", "d", "Q", "s", "s", "w", "5", "c" >>

TestJwt == TestHeaderPart \o <<".">> \o TestPayloadPart \o <<".">> \o TestSignaturePart

\* the token of unknown_part_test
TestJwtExtra == TestJwt \o <<".", "e", "x", "t", "r", "a">>

\* the base64url text of bytes, padded or not (the inverse of b64_decode)
RECURSIVE B64Encode(_, _)
B64Encode(b, pad) ==
  IF Len(b) = 0 THEN <<>>
  ELSE IF Len(b) = 1
    THEN << B64Alphabet[b[1] \div 4 + 1], B64Alphabet[(b[1] % 4) * 16 + 1] >>
         \o (IF pad THEN <<PadChar, PadChar>> ELSE <<>>)
  ELSE IF Len(b) = 2
    THEN << B64Alphabet[b[1] \div 4 + 1],
            B64Alphabet[(b[1] % 4) * 16 + b[2] \div 16 + 1],
            B64Alphabet[(b[2] % 16) * 4 + 1] >>
         \o (IF pad THEN <<PadChar>> ELSE <<>>)
  ELSE << B64Alphabet[b[1] \div 4 + 1],
          B64Alphabet[(b[1] % 4) * 16 + b[2] \div 16 + 1],
          B64Alphabet[(b[2] % 16) * 4 + b[3] \div 64 + 1],
          B64Alphabet[(b[3] % 64) + 1] >>
       \o B64Encode(SubSeq(b, 4, Len(b)), pad)

\* the decimal digits of a natural number
RECURSIVE DigitsOf(_)
DigitsOf(x) ==
  IF x < 10 THEN <<48 + x>> ELSE Append(DigitsOf(x \div 10), 48 + (x % 10))

\* the compact JSON text of a value (the inverse of from_str); strings are
\* taken to need no escape
RECURSIVE JsonText(_)
RECURSIVE ElementsText(_)
RECURSIVE MembersText(_)
ElementsText(a) ==
  IF a = <<>> THEN <<>>
  ELSE IF Len(a) = 1 THEN JsonText(a[1])
  ELSE JsonText(a[1]) \o <<44>> \o ElementsText(Tail(a))

MembersText(o) ==
  IF o = {} THEN <<>>
  ELSE LET p == CHOOSE q \in o : TRUE
           one == <<34>> \o p[1] \o <<34, 58>> \o JsonText(p[2])
       IN IF o = {p} THEN one ELSE one \o <<44>> \o MembersText(o \ {p})

JsonText(v) ==
  CASE v.kind = "null" -> <<110, 117, 108, 108>>
    [] v.kind = "bool" ->
         IF v.n = 1 THEN <<116, 114, 117, 101>> ELSE <<102, 97, 108, 115, 101>>
    [] v.kind = "number" ->
         IF v.n < 0 THEN <<45>> \o DigitsOf(0 - v.n) ELSE DigitsOf(v.n)
    [] v.kind = "float" -> v.s
    [] v.kind = "string" -> <<34>> \o v.s \o <<34>>
    [] v.kind = "array" -> <<91>> \o ElementsText(v.a) \o <<93>>
    [] v.kind = "object" -> <<123>> \o MembersText(v.o) \o <<125>>

\* JSON values and signatures whose tokens are inputs: their texts have
\* every length modulo 3, so every padding occurs
JsonValues ==
  { JNum(1), JNum(0 - 20), JArr(<<>>),
    JObj({<< <<97>>, JArr(<<JNull, JStr(<<98>>)>>) >>}) }

SignatureBytes == { <<>>, <<255>>, <<49>> }

\* segments that fail: a character outside the alphabet, bytes that are
\* not UTF-8 (0x80), text that is not JSON ("x")
BadParts == { <<"M", "!">>, <<"g", "A">>, <<"e", "A">> }

Parts ==
  {B64Encode(JsonText(v), pad) : v \in JsonValues, pad \in BOOLEAN}
    \cup {B64Encode(s, pad) : s \in SignatureBytes, pad \in BOOLEAN}
    \cup BadParts

\* what follows the third segment
ExtraParts == { <<>>, <<"e", "x", "t", "r", "a">> }

RECURSIVE Join(_)
Join(parts) ==
  IF Len(parts) = 1 THEN parts[1]
  ELSE parts[1] \o <<".">> \o Join(Tail(parts))

\* tokens of 1 to MaxSegs segments
JoinedTokens ==
  {Join(p) : p \in UNION {[1..n -> Parts] : n \in 1..3}}
    \cup {Join(p \o x) : p \in [1..3 -> Parts],
                         x \in UNION {[1..n -> ExtraParts] : n \in 1..(MaxSegs - 3)}}

\* every string of up to MaxTokenLen of these characters: two symbols decode
\* to "1" (MQ), "2" (Mg), "A" (QQ), "B" (Qg), 0x81 (gQ) or 0x82 (gg)
TokenChars == {".", "M", "Q", "g", "=", "!"}

ShortTokens == UNION {[1..n -> TokenChars] : n \in 0..MaxTokenLen}

\* the tokens of the two tests
TestTokens == {TestJwt, TestJwtExtra}

(***************************************************************************)
(* parser, one action for each statement                                   *)
(***************************************************************************)
Init ==
  /\ \/ jwt \in ShortTokens
     \/ jwt \in JoinedTokens
     \/ jwt \in TestTokens
  /\ splits = Split(jwt)
  /\ header = Unbound
  /\ payload = Unbound
  /\ signature = Unbound
  /\ result = Running
  /\ pc = "Start"

\* mutant of DecodeHeader: the segments are counted before any is decoded
DecodeHeaderCountsFirst ==
  /\ pc = "Start"
  /\ \E n \in {SplitNext(splits)} :
     \E r \in {IF Cardinality({i \in 1..Len(jwt) : jwt[i] = "."}) > 2
               THEN Err("UnknownPartError")
               ELSE parser_header(n.item)} :
        /\ splits' = n.it
        /\ IF r.ok
             THEN header' = Bound(r.val) /\ pc' = "HeaderDecoded" /\ UNCHANGED result
             ELSE result' = ReturnErr(r.err) /\ pc' = "Failed" /\ UNCHANGED header
  /\ UNCHANGED <<jwt, payload, signature>>

\* let header = parser_header(splits.next())?;
DecodeHeader ==
  /\ pc = "Start"
  /\ \E n \in {SplitNext(splits)} :
     \E r \in {parser_header(n.item)} :
        /\ splits' = n.it
        /\ IF r.ok
             THEN header' = Bound(r.val) /\ pc' = "HeaderDecoded" /\ UNCHANGED result
             ELSE result' = ReturnErr(r.err) /\ pc' = "Failed" /\ UNCHANGED header
  /\ UNCHANGED <<jwt, payload, signature>>

\* mutant of DecodePayload: a payload that fails to decode is skipped and
\* the next segment is tried
DecodePayloadRetry ==
  /\ pc = "HeaderDecoded"
  /\ \E n \in {SplitNext(splits)} :
     \E r \in {parser_payload(n.item)} :
        /\ splits' = n.it
        /\ IF r.ok
             THEN payload' = Bound(r.val) /\ pc' = "PayloadDecoded" /\ UNCHANGED result
             ELSE IF n.item.some
               THEN UNCHANGED <<pc, result, payload>>
               ELSE result' = ReturnErr(r.err) /\ pc' = "Failed" /\ UNCHANGED payload
  /\ UNCHANGED <<jwt, header, signature>>

\* let payload = parser_payload(splits.next())?;
DecodePayload ==
  /\ pc = "HeaderDecoded"
  /\ \E n \in {SplitNext(splits)} :
     \E r \in {parser_payload(n.item)} :
        /\ splits' = n.it
        /\ IF r.ok
             THEN payload' = Bound(r.val) /\ pc' = "PayloadDecoded" /\ UNCHANGED result
             ELSE result' = ReturnErr(r.err) /\ pc' = "Failed" /\ UNCHANGED payload
  /\ UNCHANGED <<jwt, header, signature>>

\* let signature = parser_signauture(splits.next())?;
DecodeSignature ==
  /\ pc = "PayloadDecoded"
  /\ \E n \in {SplitNext(splits)} :
     \E r \in {parser_signauture(n.item)} :
        /\ splits' = n.it
        /\ IF r.ok
             THEN signature' = Bound(r.val) /\ pc' = "SignatureDecoded" /\ UNCHANGED result
             ELSE result' = ReturnErr(r.err) /\ pc' = "Failed" /\ UNCHANGED signature
  /\ UNCHANGED <<jwt, header, payload>>

\* if splits.next().is_some() { return Err(JWTError::UnknownPartError); }
CheckTrailing ==
  /\ pc = "SignatureDecoded"
  /\ \E n \in {SplitNext(splits)} :
     \E r \in {trailing_check(n.item)} :
        /\ splits' = n.it
        /\ IF r.ok
             THEN pc' = "TrailingChecked" /\ UNCHANGED result
             ELSE result' = ReturnErr(r.err) /\ pc' = "Failed"
  /\ UNCHANGED <<jwt, header, payload, signature>>

\* Ok(JWToken { header, payload, signature })
Assemble ==
  /\ pc = "TrailingChecked"
  /\ result' = ReturnOk(JWToken(header.v, payload.v, signature.v))
  /\ pc' = "Done"
  /\ UNCHANGED <<jwt, splits, header, payload, signature>>

Next ==
  \/ DecodeHeader
  \/ DecodePayload
  \/ DecodeSignature
  \/ CheckTrailing
  \/ Assemble

Spec == Init /\ [][Next]_vars

\* parser is straight-line code: a step that can be taken is taken
LiveSpec == Spec /\ WF_vars(Next)

(***************************************************************************)
(* Properties                                                              *)
(***************************************************************************)
\* the places of the "." characters of a token; its dot-separated
\* segments, the empty ones counted, are one more than these
Dots(s) == {i \in 1..Len(s) : s[i] = "."}
NumParts(s) == Cardinality(Dots(s)) + 1

\* the k-th "." of s (0 before the first segment, Len(s) + 1 after the last)
Dot(s, k) ==
  IF k = 0 THEN 0
  ELSE IF k > Cardinality(Dots(s)) THEN Len(s) + 1
  ELSE CHOOSE d \in Dots(s) : Cardinality({e \in Dots(s) : e < d}) = k - 1

\* the k-th segment of s, for k in 1..NumParts(s)
Part(s, k) == SubSeq(s, Dot(s, k - 1) + 1, Dot(s, k) - 1)

Terminal == pc \in {"Done", "Failed"}
FailedWith(e) == pc = "Failed" /\ result = ReturnErr(e)

\* the header and the payload of parsing_success_test, and the bytes that
\* its signature segment encodes
TestHeader ==
  JObj({ <<<<97, 108, 103>>, JStr(<<72, 83, 50, 53, 54>>)>>,
         <<<<116, 121, 112>>, JStr(<<74, 87, 84>>)>> })

TestPayload ==
  JObj({ <<<<115, 117, 98>>, JStr(<<49, 50, 51, 52, 53, 54, 55, 56, 57, 48>>)>>,
         <<<<110, 97, 109, 101>>, JStr(<<74, 111, 104, 110, 32, 68, 111, 101>>)>>,
         <<<<105, 97, 116>>, JNum(1516239022)>> })

TestSignature ==
  << 73, 249, 74, 199, 4, 73, 72, 199, 138, 40, 93, 144, 79, 135, 240, 164,
     199, 137, 127, 126, 143, 58, 78, 178, 37, 95, 218, 117, 11, 44, 195,
     151 >>

\* every token b64url(JSON text of h) . b64url(JSON text of p) . b64url(s),
\* each segment padded or not, with the values it was made from
RoundTrips ==
  { [jwt |-> Join(<< B64Encode(JsonText(h), x), B64Encode(JsonText(p), y),
                     B64Encode(s, z) >>),
     header |-> h, payload |-> p, signature |-> s] :
      h \in JsonValues, p \in JsonValues, s \in SignatureBytes,
      x \in BOOLEAN, y \in BOOLEAN, z \in BOOLEAN }

\* C1: a token made of the base64url text of two JSON values and of a byte
\* sequence parses, and the token returned has the first value as header,
\* the second as payload and the bytes as signature; so does the token of
\* parsing_success_test.
C1_RoundTrip ==
  Terminal =>
    /\ \A e \in RoundTrips :
         jwt = e.jwt =>
           /\ pc = "Done"
           /\ result.token.header = e.header
           /\ result.token.payload = e.payload
           /\ result.token.signature = e.signature
    /\ jwt = TestJwt =>
         /\ pc = "Done"
         /\ result.token.header = TestHeader
         /\ result.token.payload = TestPayload
         /\ result.token.signature = TestSignature

\* a padded object header, an unpadded payload and a signature that is no
\* UTF-8 have been parsed
C1_Witness ==
  /\ pc = "Done"
  /\ \E e \in RoundTrips :
       /\ jwt = e.jwt
       /\ e.header.kind = "object"
       /\ e.header # e.payload
       /\ e.signature = <<255>>
       /\ Part(jwt, 1)[Len(Part(jwt, 1))] = PadChar
       /\ Part(jwt, 2)[Len(Part(jwt, 2))] # PadChar

\* the first three segments decode: the first two to JSON, the third to bytes
WellFormed3(s) ==
  /\ NumParts(s) >= 3
  /\ process_part(Part(s, 1)).ok
  /\ process_part(Part(s, 2)).ok
  /\ b64_decode(Part(s, 3)).ok

\* C2: a token of 4 or more segments whose first three are well-formed
\* fails with UnknownPartError and no token is returned; the token of
\* unknown_part_test, the parsed token with ".extra" appended, is one.
C2_UnknownPart ==
  Terminal =>
    /\ (NumParts(jwt) >= 4 /\ WellFormed3(jwt)) => FailedWith("UnknownPartError")
    /\ jwt = TestJwtExtra => FailedWith("UnknownPartError")

C2_Witness ==
  /\ FailedWith("UnknownPartError")
  /\ NumParts(jwt) = 4
  /\ WellFormed3(jwt)
  /\ Part(jwt, 4) = <<>>

\* C3 as stated: every token of exactly 2 segments fails with
\* MissingPartError.
C3_Original ==
  (Terminal /\ NumParts(jwt) = 2) => FailedWith("MissingPartError")

\* C3 as amended: a token of exactly 2 segments that both decode to JSON
\* fails with MissingPartError.
C3_MissingSignature ==
  (/\ Terminal
   /\ NumParts(jwt) = 2
   /\ process_part(Part(jwt, 1)).ok
   /\ process_part(Part(jwt, 2)).ok) => FailedWith("MissingPartError")

C3_Witness ==
  /\ FailedWith("MissingPartError")
  /\ NumParts(jwt) = 2
  /\ header.bound /\ payload.bound

\* the error of step k of the positional order (1 header, 2 payload,
\* 3 signature, 4 the trailing check), or "" if the step succeeds
StepError(s, k) ==
  IF k = 4 THEN (IF NumParts(s) >= 4 THEN "UnknownPartError" ELSE "")
  ELSE IF NumParts(s) < k THEN "MissingPartError"
  ELSE IF ~b64_decode(Part(s, k)).ok THEN "DecodeError"
  ELSE IF k = 3 THEN ""
  ELSE IF ~from_utf8(b64_decode(Part(s, k)).bytes) THEN "UTF8Error"
  ELSE IF ~from_str(b64_decode(Part(s, k)).bytes).ok THEN "SerdeJsonError"
  ELSE ""

\* C4: the error reported is that of the first step that fails in the order
\* header, payload, signature, trailing check, whatever the later segments
\* hold; a token of 4 or more segments with a malformed segment among its
\* first three never reports UnknownPartError.
C4_FirstFailure ==
  Terminal =>
    /\ \A k \in 1..4 :
         (StepError(jwt, k) # "" /\ \A j \in 1..(k - 1) : StepError(jwt, j) = "")
           => FailedWith(StepError(jwt, k))
    /\ (NumParts(jwt) >= 4 /\ \E k \in 1..3 : StepError(jwt, k) # "")
         => result # ReturnErr("UnknownPartError")

\* a token with a trailing segment, a header that decodes and a payload
\* that does not has reported the payload's error
C4_Witness ==
  /\ pc = "Failed"
  /\ NumParts(jwt) >= 4
  /\ StepError(jwt, 1) = ""
  /\ StepError(jwt, 2) = "SerdeJsonError"
  /\ StepError(jwt, 3) = "DecodeError"
  /\ result = ReturnErr("SerdeJsonError")

\* a character that base64url text never holds: none of the 64 symbols and
\* not the pad "="
Foreign(c) == c \notin B64Symbols /\ c # PadChar

\* C5: a token whose header segment holds a character outside the base64url
\* alphabet (its 64 symbols and the pad) fails with DecodeError, never with
\* SerdeJsonError or UTF8Error.
C5_DecodeFirst ==
  (Terminal /\ \E i \in 1..Len(Part(jwt, 1)) : Foreign(Part(jwt, 1)[i]))
    => FailedWith("DecodeError")

\* the header holds a foreign character after symbols that alone would
\* decode to bytes that are no JSON
C5_Witness ==
  /\ FailedWith("DecodeError")
  /\ Len(Part(jwt, 1)) = 3
  /\ Foreign(Part(jwt, 1)[3])
  /\ b64_decode(SubSeq(Part(jwt, 1), 1, 2)).ok
  /\ ~from_str(b64_decode(SubSeq(Part(jwt, 1), 1, 2)).bytes).ok

\* C6: a header or payload segment that is valid base64url, the segments
\* before it having decoded, fails with UTF8Error if its bytes are no UTF-8
\* and with SerdeJsonError if they are UTF-8 but no JSON; the segment's
\* local is never bound.
C6_Utf8ThenJson ==
  Terminal =>
    \A k \in 1..2 :
      (/\ NumParts(jwt) >= k
       /\ \A j \in 1..(k - 1) : StepError(jwt, j) = ""
       /\ b64_decode(Part(jwt, k)).ok) =>
        LET bytes == b64_decode(Part(jwt, k)).bytes
            local == IF k = 1 THEN header ELSE payload
        IN /\ ~from_utf8(bytes) => (FailedWith("UTF8Error") /\ ~local.bound)
           /\ (from_utf8(bytes) /\ ~from_str(bytes).ok)
                => (FailedWith("SerdeJsonError") /\ ~local.bound)

\* the payload, after a header that decoded, held bytes that are no UTF-8
C6_Witness ==
  /\ FailedWith("UTF8Error")
  /\ header.bound /\ ~payload.bound
  /\ NumParts(jwt) >= 2
  /\ b64_decode(Part(jwt, 2)).ok
  /\ ~from_utf8(b64_decode(Part(jwt, 2)).bytes)

JWTErrors ==
  {"SerdeJsonError", "UTF8Error", "DecodeError", "MissingPartError", "UnknownPartError"}

\* C7: parser ends with a token or with an error, never both and never
\* neither: a token has its three fields from the three segments of a token
\* of exactly three segments that all decode; an error comes with no token;
\* nothing is returned before the end.
C7_TokenOrError ==
  /\ ~Terminal => result = Running
  /\ pc = "Done" =>
       /\ DOMAIN result = {"returned", "token"}
       /\ NumParts(jwt) = 3
       /\ process_part(Part(jwt, 1)) = Ok(result.token.header)
       /\ process_part(Part(jwt, 2)) = Ok(result.token.payload)
       /\ b64_decode(Part(jwt, 3)) = [ok |-> TRUE, bytes |-> result.token.signature]
  /\ pc = "Failed" =>
       /\ DOMAIN result = {"returned", "err"}
       /\ result.err \in JWTErrors
       /\ \/ NumParts(jwt) # 3
          \/ \E k \in 1..3 : StepError(jwt, k) # ""

\* an error has been returned after the header and the payload were decoded
C7_Witness ==
  /\ pc = "Failed"
  /\ header.bound /\ payload.bound
  /\ NumParts(jwt) = 3
  /\ DOMAIN result = {"returned", "err"}

\* the steps of the linear order, and the failure of a stage that is not
\* terminal
StageStep ==
  \/ pc = "Start" /\ pc' = "HeaderDecoded"
  \/ pc = "HeaderDecoded" /\ pc' = "PayloadDecoded"
  \/ pc = "PayloadDecoded" /\ pc' = "SignatureDecoded"
  \/ pc = "SignatureDecoded" /\ pc' = "TrailingChecked"
  \/ pc = "TrailingChecked" /\ pc' = "Done"
  \/ pc \notin {"Done", "Failed"} /\ pc' = "Failed"

\* C8: a parse moves only along Start, HeaderDecoded, PayloadDecoded,
\* SignatureDecoded, TrailingChecked, Done, one stage at a time, or from a
\* stage that is not terminal to Failed; after Failed or Done nothing
\* changes (no segment is taken or decoded); and every parse reaches Done
\* or Failed.
C8_LinearStages ==
  /\ [][StageStep /\ (pc' = "Failed" => "err" \in DOMAIN result')]_vars
  /\ [][~Terminal]_vars
  /\ <>Terminal

\* a parse has failed with segments of the token left untaken
C8_Witness ==
  /\ pc = "Failed"
  /\ ~splits.finished
  /\ FirstDot(splits.rest) # 0

\* C9: with a header and a payload that decode, the signature step binds
\* the bytes its segment encodes, whatever they are, or fails with
\* DecodeError; it never fails with UTF8Error or SerdeJsonError.
C9_RawSignature ==
  (/\ Terminal
   /\ NumParts(jwt) >= 3
   /\ StepError(jwt, 1) = ""
   /\ StepError(jwt, 2) = "") =>
    IF b64_decode(Part(jwt, 3)).ok
      THEN /\ signature = Bound(b64_decode(Part(jwt, 3)).bytes)
           /\ NumParts(jwt) = 3 => pc = "Done"
           /\ \A e \in RoundTrips : jwt = e.jwt => signature.v = e.signature
      ELSE FailedWith("DecodeError")

\* a signature that is no UTF-8 has been returned as it is
C9_Witness ==
  /\ pc = "Done"
  /\ signature = Bound(<<255>>)
  /\ result.token.signature = <<255>>

\* C10: an empty substring is a segment and every token has a first
\* segment, so the header step never fails with MissingPartError; parser
\* fails with MissingPartError only for a token of 1 or 2 segments whose
\* segments all decode; a token of fewer than 3 segments with a segment
\* that does not decode reports the error of the first such segment.
C10_MissingPart ==
  /\ pc # "Start" => (header.bound \/ (pc = "Failed" /\ result # ReturnErr("MissingPartError")))
  /\ FailedWith("MissingPartError") =>
       /\ NumParts(jwt) \in {1, 2}
       /\ \A k \in 1..NumParts(jwt) : process_part(Part(jwt, k)).ok
  /\ Terminal =>
       \A k \in 1..2 :
         (/\ NumParts(jwt) < 3
          /\ k <= NumParts(jwt)
          /\ ~process_part(Part(jwt, k)).ok
          /\ \A j \in 1..(k - 1) : process_part(Part(jwt, j)).ok)
           => FailedWith(process_part(Part(jwt, k)).err)

\* the empty token has one segment, the empty one, which is no JSON
C10_Witness ==
  /\ jwt = <<>>
  /\ FailedWith("SerdeJsonError")

====
